---- MODULE Spec2Model ----
(***************************************************************************)
(* Model of src/handlers/resources/update_resource.py: the PATCH           *)
(* /resources/{resourceId} Lambda handler over a DynamoDB table.           *)
(*                                                                         *)
(* Several invocations of handler run concurrently against one table.  An  *)
(* invocation is cut at its two store calls: everything up to the          *)
(* get_item call is one step, the get_item call is one step, the building  *)
(* of the update (which reads the clock) is one step, and the update_item  *)
(* call together with the shaping of the response is one step.             *)
(***************************************************************************)
EXTENDS Integers, FiniteSets, Sequences, TLC

\* ------------------------------------------------------------------ bounds
NumInvocations == 2
MaxClock == 2

Invocations == 1..NumInvocations

\* ------------------------------------------------------------ Python values
\* A key that is not in a dict, and Python's None (JSON null).
Missing == "<missing>"
None == "<None>"

\* A dict with no keys.
EmptyDict == [k \in {} |-> ""]

\* A JSON integer as boto3 hands it back from the table: decimal.Decimal.
Decimals == {"#7"}

\* ------------------------------------------------------------ request events
ResourceIds == {"r1", "r2"}

\* The raw request bodies the model sends (event["body"] when it is a string).
RawBodies ==
  { "{",
    "{}",
    "5",
    "{\"title\":\"B\"}",
    "{\"description\":\"e\"}",
    "{\"foo\":\"bar\",\"id\":\"r9\",\"updatedAt\":\"x\"}",
    "{\"title\":7,\"description\":\"e\"}" }

\* json.loads on a raw body: the parsed value, or the exception raised.
json_loads(s) ==
  CASE s = None -> [type |-> "TypeError", items |-> EmptyDict]
    [] s = "{" -> [type |-> "JSONDecodeError", items |-> EmptyDict]
    [] s = "{}" -> [type |-> "dict", items |-> EmptyDict]
    [] s = "5" -> [type |-> "int", items |-> EmptyDict]
    [] s = "{\"title\":\"B\"}" -> [type |-> "dict", items |-> [title |-> "B"]]
    [] s = "{\"description\":\"e\"}" ->
         [type |-> "dict", items |-> [description |-> "e"]]
    [] s = "{\"foo\":\"bar\",\"id\":\"r9\",\"updatedAt\":\"x\"}" ->
         [type |-> "dict",
          items |-> [foo |-> "bar", id |-> "r9", updatedAt |-> "x"]]
    [] s = "{\"title\":7,\"description\":\"e\"}" ->
         [type |-> "dict", items |-> [title |-> "#7", description |-> "e"]]

\* The request events: pathParameters is absent, null, or a dict that may
\* hold resourceId; body is absent, null, or a string.  A request that names
\* no stored resource carries one body.
Events ==
  { e \in [pathParameters : {Missing, None, "dict"},
           resourceId : {Missing, ""} \cup ResourceIds,
           body : {Missing, None} \cup RawBodies] :
      /\ e.pathParameters # "dict" => e.resourceId = Missing
      /\ e.resourceId # "r1" => e.body = "{\"title\":\"B\"}" }

\* ------------------------------------------------------------------- state
VARIABLES
  table,                        \* the DynamoDB table: resource id -> item
  now,                          \* the wall clock (datetime.utcnow())
  pc,                           \* where each invocation stands
  event,                        \* each invocation's request event
  response,                     \* what each invocation's get_item call gave
  expression_attribute_values,  \* each invocation's update, once built
  update_response,              \* what each invocation's update_item call gave
  result,                       \* what each invocation returned
  get_item_calls,               \* table.get_item calls issued, per invocation
  update_item_calls             \* table.update_item calls issued, per invocation

vars == <<table, now, pc, event, response, expression_attribute_values,
          update_response, result, get_item_calls, update_item_calls>>

\* ---------------------------------------------------------------- responses
JsonHeaders == {"Content-Type: application/json"}
CorsHeaders == JsonHeaders \cup {"Access-Control-Allow-Origin: *"}

NoResponse ==
  [statusCode |-> 0, headers |-> {}, error |-> "", details |-> "",
   item |-> EmptyDict]

ErrorResponse(status, error, details) ==
  [statusCode |-> status, headers |-> JsonHeaders, error |-> error,
   details |-> details, item |-> EmptyDict]

OkResponse(item) ==
  [statusCode |-> 200, headers |-> CorsHeaders, error |-> "", details |-> "",
   item |-> item]

\* The messages a failing store call carries: a botocore ClientError's
\* Error.Message, and str(e) of any other exception of the client.
ClientErrorMessages == {"Throughput exceeded", "Access denied"}
OtherErrorMessages == {"Could not connect to the endpoint"}

\* What a store call gave: nothing yet, its value, or the exception raised.
Unset == [kind |-> "unset", message |-> ""]
Gave(kind) == [kind |-> kind, message |-> ""]
Raised(kind, message) == [kind |-> kind, message |-> message]

\* f"Resource with id '{resource_id}' not found"
NotFoundMessage(rid) ==
  CASE rid = "r1" -> "Resource with id 'r1' not found"
    [] rid = "r2" -> "Resource with id 'r2' not found"

\* ------------------------------------------------------------- validation
\* dict.get(key, default) on the event's top level.
EventGet(value, default) == IF value = Missing THEN default ELSE value

\* event.get("pathParameters", {}).get("resourceId"): the id, None when the
\* dict holds no resourceId, or "AttributeError" when pathParameters is None.
resource_id(e) ==
  IF EventGet(e.pathParameters, "dict") = None THEN "AttributeError"
  ELSE IF e.pathParameters = Missing THEN None
  ELSE EventGet(e.resourceId, None)

\* json.loads(event.get("body", "{}")).
body(e) == json_loads(EventGet(e.body, "{}"))

\* bool(x) of a parsed body: a dict with keys, or the int 5.
Truthy(parsed) ==
  CASE parsed.type = "dict" -> DOMAIN parsed.items # {}
    [] parsed.type = "int" -> TRUE

\* Lines 49-81 of handler: what the invocation does before any store call.
\* kind is "raise" (an exception leaves the handler), "return" (a response)
\* or "continue" (the request goes on to the store).
Validate(e) ==
  IF resource_id(e) = "AttributeError"
    THEN [kind |-> "raise", response |-> NoResponse]
  ELSE IF resource_id(e) \in {None, ""}
    THEN [kind |-> "return",
          response |-> ErrorResponse(400, "Missing resourceId in path", "")]
  ELSE IF body(e).type = "TypeError"
    THEN [kind |-> "raise", response |-> NoResponse]
  ELSE IF body(e).type = "JSONDecodeError"
    THEN [kind |-> "return",
          response |-> ErrorResponse(400, "Invalid JSON in request body", "")]
  ELSE IF ~Truthy(body(e))
    THEN [kind |-> "return",
          response |-> ErrorResponse(400, "Request body cannot be empty", "")]
  ELSE [kind |-> "continue", response |-> NoResponse]

\* ------------------------------------------------------------------ store
\* table.get_item(Key={'id': rid}) when the call succeeds.
get_item(tbl, rid) == IF rid \in DOMAIN tbl THEN Gave("Item") ELSE Gave("NoItem")

\* A handler that tests the response itself, not its 'Item' key.
ItemInResponseTruthy(r) == r.kind \in {"Item", "NoItem"}

\* 'Item' in response
ItemInResponse(r) == r.kind = "Item"

\* 'title' in body and 'description' in body raise TypeError on an int.
ContainsRaises(parsed) == parsed.type # "dict"

UpdatableFields == {"title", "description"}

\* An update that leaves updatedAt out of the SET.
BuildUpdateWithoutTimestamp(parsed, timestamp) ==
  [a \in UpdatableFields \cap DOMAIN parsed.items |-> parsed.items[a]]

\* expression_attribute_values, named by attribute: updatedAt always, title
\* and description when the body holds the key.
BuildUpdate(parsed, timestamp) ==
  [a \in {"updatedAt"} \cup (UpdatableFields \cap DOMAIN parsed.items) |->
     IF a = "updatedAt" THEN timestamp ELSE parsed.items[a]]

\* A write that replaces the whole item (put_item) by the key and the values.
ApplySetReplacingItem(tbl, rid, values) ==
  [a \in {"id"} \cup DOMAIN values |-> IF a \in DOMAIN values THEN values[a] ELSE rid]

\* DynamoDB's SET on one item: the named attributes are written, the others
\* kept; an item that does not exist is created with its key.
ApplySet(tbl, rid, values) ==
  LET old == IF rid \in DOMAIN tbl THEN tbl[rid] ELSE [id |-> rid]
  IN [a \in DOMAIN old \cup DOMAIN values |->
        IF a \in DOMAIN values THEN values[a] ELSE old[a]]

PutItem(tbl, rid, item) ==
  [r \in DOMAIN tbl \cup {rid} |-> IF r = rid THEN item ELSE tbl[r]]

\* json.dumps(updated_resource) raises TypeError on a decimal.Decimal.
\* updatedAt is always the handler's own ISO string.
JsonDumpsRaises(item) ==
  \E a \in DOMAIN item \ {"updatedAt"} : item[a] \in Decimals

\* A store error answered by the catch-all clause.
ClientErrorAsInternalError(message) ==
  ErrorResponse(500, "Internal server error", message)

\* The except clauses of handler.
ClientErrorResponse(message) ==
  ErrorResponse(500, "Failed to update resource", message)

ExceptionResponse(message) ==
  ErrorResponse(500, "Internal server error", message)

\* --------------------------------------------------------------- the clock
\* What datetime.utcnow() may read: the clock does not run backwards.
ClockReadings == now..MaxClock

\* ------------------------------------------------------------------ Init
\* The table holds r1, last written before the clock's first reading, and
\* no r2.
InitialTable ==
  [r \in {"r1"} |->
     [id |-> "r1", title |-> "A", description |-> "d", owner |-> "o",
      updatedAt |-> 0]]

Init ==
  /\ table = InitialTable
  /\ now = 1
  /\ pc = [i \in Invocations |-> "idle"]
  /\ event \in [Invocations -> Events]
  /\ response = [i \in Invocations |-> Unset]
  /\ expression_attribute_values = [i \in Invocations |-> EmptyDict]
  /\ update_response = [i \in Invocations |-> Unset]
  /\ result = [i \in Invocations |-> NoResponse]
  /\ get_item_calls = [i \in Invocations |-> 0]
  /\ update_item_calls = [i \in Invocations |-> 0]

\* ---------------------------------------------------------------- actions
Return(i, r) ==
  /\ pc' = [pc EXCEPT ![i] = "returned"]
  /\ result' = [result EXCEPT ![i] = r]

\* handler is invoked: lines 49-81.
Invoke(i) ==
  /\ pc[i] = "idle"
  /\ LET v == Validate(event[i])
     IN \/ /\ v.kind = "raise"
           /\ pc' = [pc EXCEPT ![i] = "raised"]
           /\ UNCHANGED result
        \/ /\ v.kind = "return"
           /\ Return(i, v.response)
        \/ /\ v.kind = "continue"
           /\ pc' = [pc EXCEPT ![i] = "get_item"]
           /\ UNCHANGED result
  /\ UNCHANGED <<table, now, event, response, expression_attribute_values,
                 update_response, get_item_calls, update_item_calls>>

\* table.get_item(Key={'id': resource_id}) and the test on 'Item': lines 83-94,
\* and the except clauses when the call raises.
GetItem(i) ==
  /\ pc[i] = "get_item"
  /\ get_item_calls' = [get_item_calls EXCEPT ![i] = @ + 1]
  /\ \/ LET r == get_item(table, resource_id(event[i]))
        IN /\ response' = [response EXCEPT ![i] = r]
           /\ \/ /\ ItemInResponse(r)
                 /\ pc' = [pc EXCEPT ![i] = "build"]
                 /\ UNCHANGED result
              \/ /\ ~ItemInResponse(r)
                 /\ Return(i, ErrorResponse(404,
                      NotFoundMessage(resource_id(event[i])), ""))
     \/ \E m \in ClientErrorMessages :
          /\ response' = [response EXCEPT ![i] = Raised("ClientError", m)]
          /\ Return(i, ClientErrorResponse(m))
     \/ \E m \in OtherErrorMessages :
          /\ response' = [response EXCEPT ![i] = Raised("Exception", m)]
          /\ Return(i, ExceptionResponse(m))
  /\ UNCHANGED <<table, now, event, expression_attribute_values,
                 update_response, update_item_calls>>

\* The update is built, the clock read: lines 96-110.
Build(i) ==
  /\ pc[i] = "build"
  /\ \E t \in ClockReadings :
       /\ now' = t
       /\ \/ /\ ContainsRaises(body(event[i]))
             /\ Return(i, ExceptionResponse("argument of type 'int' is not iterable"))
             /\ UNCHANGED expression_attribute_values
          \/ /\ ~ContainsRaises(body(event[i]))
             /\ expression_attribute_values' =
                  [expression_attribute_values EXCEPT
                     ![i] = BuildUpdate(body(event[i]), t)]
             /\ pc' = [pc EXCEPT ![i] = "update_item"]
             /\ UNCHANGED result
  /\ UNCHANGED <<table, event, response, update_response, get_item_calls,
                 update_item_calls>>

\* table.update_item(..., ReturnValues='ALL_NEW') and the response made of
\* the attributes it returns: lines 112-130, and the except clauses.
UpdateItem(i) ==
  /\ pc[i] = "update_item"
  /\ update_item_calls' = [update_item_calls EXCEPT ![i] = @ + 1]
  /\ \/ LET rid == resource_id(event[i])
            updated_resource ==
              ApplySet(table, rid, expression_attribute_values[i])
        IN /\ table' = PutItem(table, rid, updated_resource)
           /\ update_response' = [update_response EXCEPT ![i] = Gave("Attributes")]
           /\ \/ /\ JsonDumpsRaises(updated_resource)
                 /\ Return(i, ExceptionResponse(
                      "Object of type Decimal is not JSON serializable"))
              \/ /\ ~JsonDumpsRaises(updated_resource)
                 /\ Return(i, OkResponse(updated_resource))
     \/ \E m \in ClientErrorMessages :
          /\ update_response' =
               [update_response EXCEPT ![i] = Raised("ClientError", m)]
          /\ Return(i, ClientErrorResponse(m))
          /\ UNCHANGED table
     \/ \E m \in OtherErrorMessages :
          /\ update_response' =
               [update_response EXCEPT ![i] = Raised("Exception", m)]
          /\ Return(i, ExceptionResponse(m))
          /\ UNCHANGED table
  /\ UNCHANGED <<now, event, response, expression_attribute_values,
                 get_item_calls>>

Next ==
  \E i \in Invocations : Invoke(i) \/ GetItem(i) \/ Build(i) \/ UpdateItem(i)

Spec == Init /\ [][Next]_vars

\* ================================================================ claims
Others(i) == Invocations \ {i}

\* The invocation ran with no other invocation started.
Alone(i) == \A j \in Others(i) : pc[j] = "idle"

\* The keys of the parsed body, when it is a JSON object.
BodyIsObject(i) == body(event[i]).type = "dict"
BodyKeys(i) == DOMAIN body(event[i]).items

\* The update_item call of invocation i succeeds in this step.
Writes(i) ==
  /\ pc[i] = "update_item"
  /\ update_response'[i].kind = "Attributes"

\* C1: for every request event and every outcome of the store calls, handler
\* returns a response whose status is 200, 400, 404 or 500; no exception
\* leaves the handler.
C1_NoExceptionEscapes ==
  \A i \in Invocations :
    /\ pc[i] # "raised"
    /\ pc[i] = "returned" => result[i].statusCode \in {200, 400, 404, 500}

\* C2: a request with resourceId absent or empty, or with a body that is
\* malformed, absent or an empty object, gets a 400 and no store call is
\* issued for it.
C2_HasNoResourceId(e) ==
  e.pathParameters # "dict" \/ e.resourceId \in {Missing, ""}

C2_BodyInvalidOrEmpty(e) == e.body \in {Missing, "{", "{}"}

C2_ValidationFailureIs400 ==
  \A i \in Invocations :
    (pc[i] # "idle"
       /\ (C2_HasNoResourceId(event[i]) \/ C2_BodyInvalidOrEmpty(event[i])))
    => /\ pc[i] = "returned"
       /\ result[i].statusCode = 400
       /\ get_item_calls[i] = 0
       /\ update_item_calls[i] = 0

\* C3 as stated: a request that passes validation and names a resource with
\* no record gets the 404 that names the id, with one read, no write and no
\* record created.
C3_NotFoundResponse(rid) ==
  [statusCode |-> 404, headers |-> {"Content-Type: application/json"},
   error |-> IF rid = "r2" THEN "Resource with id 'r2' not found"
             ELSE "Resource with id 'r1' not found",
   details |-> "", item |-> EmptyDict]

C3_MissingRecordIs404 ==
  \A i \in Invocations :
    (pc[i] = "returned"
       /\ Validate(event[i]).kind = "continue"
       /\ resource_id(event[i]) \notin DOMAIN table)
    => /\ result[i] = C3_NotFoundResponse(resource_id(event[i]))
       /\ get_item_calls[i] = 1
       /\ update_item_calls[i] = 0

\* C3 amended: when the read succeeds and finds no record, handler returns
\* the 404 that names the id, having issued one read and no write, and no
\* record exists for the id.
C3_ReadFindingNothingIs404 ==
  \A i \in Invocations :
    response[i].kind = "NoItem"
    => /\ pc[i] = "returned"
       /\ result[i] = C3_NotFoundResponse(resource_id(event[i]))
       /\ get_item_calls[i] = 1
       /\ update_item_calls[i] = 0
       /\ resource_id(event[i]) \notin DOMAIN table

C3_Witness ==
  \E i \in Invocations :
    /\ response[i].kind = "NoItem"
    /\ result[i].statusCode = 404

\* C4: with a non-empty resourceId, a non-empty JSON object body, an existing
\* record, both store calls succeeding and no other invocation, the response
\* is 200 and the returned and the stored record are the prior record with
\* title and description replaced iff the body holds the key, updatedAt set
\* to the new timestamp, and nothing else changed or added.
C4_Expected(i) ==
  LET prior == InitialTable[resource_id(event[i])]
      b == body(event[i]).items
  IN [a \in DOMAIN prior \cup {"updatedAt"} |->
        IF a = "updatedAt" THEN expression_attribute_values[i].updatedAt
        ELSE IF a \in {"title", "description"} /\ a \in DOMAIN b THEN b[a]
        ELSE prior[a]]

C4_SuccessfulUpdateReturnsMergedRecord ==
  \A i \in Invocations :
    (pc[i] = "returned"
       /\ Alone(i)
       /\ BodyIsObject(i) /\ BodyKeys(i) # {}
       /\ response[i].kind = "Item"
       /\ update_response[i].kind = "Attributes")
    => /\ result[i].statusCode = 200
       /\ result[i].item = C4_Expected(i)
       /\ table[resource_id(event[i])] = C4_Expected(i)

C6_NoUpdatableFieldNoWrite ==
  \A i \in Invocations :
    (BodyIsObject(i) /\ BodyKeys(i) \cap {"title", "description"} = {})
    => update_item_calls[i] = 0

\* C7: an invocation that passes validation issues one read, and one write
\* iff the read found the record; the write comes after the read, and no
\* call is issued twice.
C7_OneReadAndOneWriteIffFound ==
  \A i \in Invocations :
    Validate(event[i]).kind = "continue"
    => /\ get_item_calls[i] <= 1
       /\ update_item_calls[i] <= 1
       /\ update_item_calls[i] = 1 => response[i].kind = "Item"
       /\ pc[i] = "returned"
            => /\ get_item_calls[i] = 1
               /\ update_item_calls[i] = 1 <=> response[i].kind = "Item"

\* C8: when the read found the record and the write fails with a store
\* error, the response is the 500 "Failed to update resource" carrying the
\* store's message, never a 200.
C8_WriteStoreErrorIs500 ==
  \A i \in Invocations :
    (response[i].kind = "Item" /\ update_response[i].kind = "ClientError")
    => /\ pc[i] = "returned"
       /\ result[i].statusCode = 500
       /\ result[i].error = "Failed to update resource"
       /\ result[i].details = update_response[i].message
       /\ result[i].item = EmptyDict

C8_Witness ==
  \E i \in Invocations :
    /\ response[i].kind = "Item"
    /\ update_response[i].kind = "ClientError"
    /\ update_response[i].message = "Access denied"
    /\ pc[i] = "returned"

\* C9: an invocation that answers 400, 404 or 500 leaves the table as it was:
\* the step in which it returns such a response changes no record.
C9_ErrorResponseLeavesTableUnchanged ==
  [][\A i \in Invocations :
       (pc[i] # "returned" /\ pc'[i] = "returned"
          /\ result'[i].statusCode \in {400, 404, 500})
       => table' = table]_vars

\* C10: when an invocation whose body has only title and one whose body has
\* only description both answer 200 on one record (no third write), the
\* record carries the title of the first and the description of the second;
\* and every 200 response carries the record as stored by its own write.
C10_TitleOnly(i) ==
  BodyIsObject(i) /\ BodyKeys(i) \cap {"title", "description"} = {"title"}

C10_DescriptionOnly(i) ==
  BodyIsObject(i) /\ BodyKeys(i) \cap {"title", "description"} = {"description"}

C10_BothAnswered(i, j) ==
  /\ i # j
  /\ resource_id(event[i]) = resource_id(event[j])
  /\ C10_TitleOnly(i) /\ C10_DescriptionOnly(j)
  /\ result[i].statusCode = 200 /\ result[j].statusCode = 200
  /\ \A k \in Invocations \ {i, j} : update_item_calls[k] = 0

C10_BothFieldsKept ==
  \A i, j \in Invocations :
    C10_BothAnswered(i, j)
    => LET item == table[resource_id(event[i])]
       IN /\ {"title", "description"} \subseteq DOMAIN item
          /\ item.title = body(event[i]).items.title
          /\ item.description = body(event[j]).items.description

C10_NoLostUpdateAcrossFields ==
  /\ []C10_BothFieldsKept
  /\ [][\A i \in Invocations :
          (pc[i] = "update_item" /\ result'[i].statusCode = 200)
          => result'[i].item = table'[resource_id(event[i])]]_vars

C10_Witness == \E i, j \in Invocations : C10_BothAnswered(i, j)

====
